---- MODULE Spec2Model ----
(***************************************************************************)
(* Model of llm_tester_app/app.py: a Streamlit script that is re-run from  *)
(* top to bottom on every user interaction of every browser session.       *)
(*                                                                         *)
(* Process-wide state: the secrets, the one psycopg2 connection that       *)
(* st.cache_resource hands to every session (with its open transaction),   *)
(* the committed rows of llm_evaluations, the SERIAL sequence and the      *)
(* st.cache_data memo of query_openrouter_model.                           *)
(* Per-session state: st.session_state.prompt / .responses, the widget     *)
(* values of the interaction being served and the position of the script   *)
(* run.                                                                    *)
(*                                                                         *)
(* Python strings are modelled as sequences of tokens, so that an f-string *)
(* is a concatenation and "starts with" is a prefix test.                  *)
(***************************************************************************)
EXTENDS Integers, Sequences, FiniteSets, TLC

VARIABLES
    secrets,    \* keys present in st.secrets
    conn,       \* st.cache_resource entry of get_db_connection: "none" | "open"
    tx,         \* the connection's transaction: [st, rows]
    tables,     \* the tables of the database
    db,         \* committed rows of llm_evaluations, in commit order
    seq,        \* last value handed out by the SERIAL sequence of id
    cache,      \* st.cache_data memo of query_openrouter_model
    live,       \* the browser sessions served by the process
    prompt,     \* st.session_state.prompt, per session
    responses,  \* st.session_state.responses, per session
    pc,         \* position of the session's script run
    ev,         \* the interaction being served: button and widget values
    ui,         \* what the session's last finished run rendered
    said,       \* the message the step just taken put on the page (history)
    lastq,      \* the call of query_openrouter_model just made (history)
    seen,       \* history: what query returned per pair since the last refresh
    nfail,      \* store failures injected so far
    failed      \* history: failed save attempts on each session's pending list

vars == << secrets, conn, tx, tables, db, seq, cache, live, prompt, responses, pc, ev,
           ui, said, lastq, seen, nfail, failed >>

----------------------------------------------------------------------------
(* Bounds of the exploration *)

MaxRows == 2
MaxFail == 1

(* Program constants *)

RatingMin == 1
RatingMax == 5

AllSessions == {"s1", "s2"}
FREE_MODELS == {"mistral", "gemma"}
PromptTexts == {<<>>, <<"q1">>}
(* message contents: a plain one and one with white space at both ends *)
Contents == {<<"a1">>, <<" ", "a2", " ">>}

----------------------------------------------------------------------------
(* Strings as token sequences *)

EmptyStr == <<>>

StartsWith(s, p) == Len(p) <= Len(s) /\ SubSeq(s, 1, Len(p)) = p

API_ERR == <<"Erro na API: ">>
SHAPE_ERR == <<"Erro ao processar a resposta da API: ">>

----------------------------------------------------------------------------
(* JSON values as Python sees them after response.json() *)

JNull == [t |-> "null"]
JStr(s) == [t |-> "str", v |-> s]
JList(items) == [t |-> "list", v |-> items]
JDict(m) == [t |-> "dict", v |-> m]

(* The outcome of evaluating a Python expression: a value or an exception *)
Ok(v) == [exc |-> "none", val |-> v]
Exc(class, text) == [exc |-> class, val |-> JStr(text)]

(* v[k] with a string key *)
GetKey(v, k) ==
    IF v.t = "dict"
    THEN IF k \in DOMAIN v.v THEN Ok(v.v[k]) ELSE Exc("KeyError", <<"'", k, "'">>)
    ELSE Exc("TypeError", <<"bad subscript">>)

(* v[i] with an integer index, counted from 0 *)
GetIdx(v, i) ==
    IF v.t = "list"
    THEN IF i < Len(v.v) THEN Ok(v.v[i + 1])
         ELSE Exc("IndexError", <<"list index out of range">>)
    ELSE IF v.t = "dict" THEN Exc("KeyError", <<"0">>)
    ELSE IF v.t = "str"
    THEN IF i < Len(v.v) THEN Ok(JStr(<<v.v[i + 1]>>))
         ELSE Exc("IndexError", <<"string index out of range">>)
    ELSE Exc("TypeError", <<"bad subscript">>)

(* e1 then f(e1's value), an exception cutting the chain short *)
Then(r, F(_)) == IF r.exc = "none" THEN F(r.val) ELSE r

(* the subscript taking the last choice *)
IdxLast(c) == GetIdx(c, IF c.t = "list" /\ c.v # <<>> THEN Len(c.v) - 1 ELSE 0)

(* data['choices'][0]['message']['content'] *)
KeyChoices(d) == GetKey(d, "choices")
IdxFirst(c) == GetIdx(c, 0)
KeyMessage(c) == GetKey(c, "message")
KeyContent(m) == GetKey(m, "content")
ExtractContent(data) ==
    Then(Then(Then(KeyChoices(data), IdxFirst), KeyMessage), KeyContent)

----------------------------------------------------------------------------
(* What requests.post / raise_for_status / response.json() can produce *)

Msg(c) == JDict([role |-> JStr(<<"assistant">>), content |-> JStr(c)])
Choice(c) == JDict([index |-> JStr(<<"0">>), message |-> Msg(c)])
Body(choices) == JDict([id |-> JStr(<<"gen-1">>), choices |-> choices])

BodyOk(c) == Body(JList(<<Choice(c)>>))
BodyTwoChoices(c, d) == Body(JList(<<Choice(c), Choice(d)>>))
BodyNoChoices == JDict([id |-> JStr(<<"gen-1">>)])
BodyEmptyChoices == Body(JList(<<>>))
BodyNullChoices == Body(JNull)
BodyNoMessage == Body(JList(<<JDict([index |-> JStr(<<"0">>)])>>))
BodyNullMessage == Body(JList(<<JDict([index |-> JStr(<<"0">>), message |-> JNull])>>))

Http(kind, data) == [kind |-> kind, data |-> data]
ConnError == Http("connerr", JNull)
BadStatus == Http("status", JNull)
NotJson == Http("notjson", JNull)
Json(data) == Http("json", data)

TransportOutcomes == {ConnError, BadStatus}
ShapeOutcomes == {Json(BodyNoChoices), Json(BodyEmptyChoices)}
OkOutcomes == {Json(BodyOk(c)) : c \in Contents}
                 \cup {Json(BodyTwoChoices(c, d)) : c, d \in Contents}
OddOutcomes == {NotJson, Json(BodyNullChoices), Json(BodyNoMessage),
                Json(BodyNullMessage)}
HttpOutcomes == TransportOutcomes \cup ShapeOutcomes \cup OkOutcomes \cup OddOutcomes

(* the answers the exploration of whole sessions tries: a malformed body   *)
(* and a well-formed one                                                   *)
SessionOutcomes == {Json(BodyNullChoices), Json(BodyOk(<<"a1">>))}

(* str(e) of the exception each transport outcome raises *)
Describe(o) ==
    IF o.kind = "connerr" THEN <<"connection refused">>
    ELSE IF o.kind = "status" THEN <<"500 Server Error">>
    ELSE <<"Expecting value">>

----------------------------------------------------------------------------
(* query_openrouter_model, the decorated function's body *)

RequestExceptions == {"ConnectionError", "HTTPError", "JSONDecodeError"}

(* the try block: secret lookup, post, raise_for_status, json, extraction *)
TryQuery(sec, o) ==
    IF "OPENROUTER_API_KEY" \notin sec
    THEN Exc("KeyError", <<"'", "OPENROUTER_API_KEY", "'">>)
    ELSE IF o.kind = "connerr" THEN Exc("ConnectionError", Describe(o))
    ELSE IF o.kind = "status" THEN Exc("HTTPError", Describe(o))
    ELSE IF o.kind = "notjson" THEN Exc("JSONDecodeError", Describe(o))
    ELSE ExtractContent(o.data)

(* an except clause for connection errors alone *)
CatchConnectionOnly(r) == r.exc = "ConnectionError"

(* the two except clauses; any other exception leaves the function *)
CatchRequest(r) == r.exc \in RequestExceptions
CatchShape(r) == r.exc \in {"KeyError", "IndexError"}

QueryBody(sec, o) ==
    LET r == TryQuery(sec, o) IN
    IF r.exc = "none" THEN [raised |-> FALSE, val |-> r.val]
    ELSE IF CatchRequest(r) THEN [raised |-> FALSE, val |-> JStr(API_ERR \o r.val.v)]
    ELSE IF CatchShape(r) THEN [raised |-> FALSE, val |-> JStr(SHAPE_ERR \o r.val.v)]
    ELSE [raised |-> TRUE, val |-> r.val]

(* whether the body reaches requests.post at all *)
IssuesHttp(sec) == "OPENROUTER_API_KEY" \in sec


----------------------------------------------------------------------------
(* The store: one psycopg2 connection and the llm_evaluations table *)

DB_KEY == "DB_CONNECTION_STRING"
API_KEY == "OPENROUTER_API_KEY"

NoTx == [st |-> "idle", rows |-> <<>>]

(* Lines 38-47: the table setup_database asks for *)
TABLE == "llm_evaluations"
Columns == {"id", "prompt", "model_name", "response", "rating", "created_at"}
Schema == [name |-> TABLE, columns |-> Columns, pk |-> "id"]

(* CREATE TABLE IF NOT EXISTS: nothing is done when a table of the name is *)
(* there, whatever its columns                                             *)
CreateTableIfNotExists(T) ==
    [raised |-> FALSE,
     tables |-> IF \E t \in T : t.name = TABLE THEN T ELSE T \cup {Schema}]

(* psycopg2 opens a transaction at the first statement after commit/rollback *)
Begun(t) == [t EXCEPT !.st = IF t.st = "idle" THEN "open" ELSE @]

(* CURRENT_TIMESTAMP is the start of the transaction.  The process has one  *)
(* connection, so its transactions are serial and the rows of a later      *)
(* transaction carry a later stamp than every committed row, the rows of   *)
(* one transaction the same stamp: the stamp is the ordinal of the         *)
(* transaction among those that committed rows.                            *)
RECURSIVE MaxStamp(_)
MaxStamp(rows) ==
    IF rows = <<>> THEN 0
    ELSE LET m == MaxStamp(Tail(rows)) IN
         IF Head(rows).created_at > m THEN Head(rows).created_at ELSE m

TxStamp(committed) == MaxStamp(committed) + 1

(* INSERT INTO llm_evaluations (prompt, model_name, response, rating):      *)
(* id from the sequence, created_at by default.  batch is history: which   *)
(* save attempt wrote the row.                                             *)
NewRow(id, p, res, rating, stamp, batch) ==
    [id |-> id, prompt |-> p, model_name |-> res.model, response |-> res.response,
     rating |-> rating, created_at |-> stamp, batch |-> batch]

(* a commit that leaves the table with the transaction's rows alone *)
CommitReplaces(t, committed) == IF t.st = "aborted" THEN committed ELSE t.rows

(* conn.commit(): COMMIT of a failed transaction is answered by ROLLBACK *)
Committed(t, committed) == IF t.st = "aborted" THEN committed ELSE committed \o t.rows

(* the except clause without its rollback *)
NotRolledBack(t) == t

(* conn.rollback() *)
RolledBack(t) == NoTx

(* SELECT * FROM llm_evaluations ORDER BY created_at DESC over the shared   *)
(* connection: it sees the committed rows and the connection's own         *)
(* uncommitted ones.  SQL leaves the order of rows of equal created_at     *)
(* open, so a read returns any one of the orderings below.                 *)
Visible == db \o tx.rows

Orderings(rows) ==
    LET n == Len(rows)
        perms == {f \in [1 .. n -> 1 .. n] : \A i, j \in 1 .. n : f[i] = f[j] => i = j}
        desc(f) == \A i \in 1 .. n - 1 : rows[f[i]].created_at >= rows[f[i + 1]].created_at
    IN {[i \in 1 .. n |-> rows[f[i]]] : f \in {g \in perms : desc(g)}}

ListAll == Orderings(Visible)

----------------------------------------------------------------------------
(* Widget values and events *)

Ratings == RatingMin .. RatingMax

(* a slider that starts one below the lowest rating *)
SliderFromZero == {RatingMin - 1, RatingMax}

(* the slider positions the exploration tries: the default and the far end *)
RatingPicks == {r \in Ratings : r = RatingMin \/ r = RatingMax}

(* the selections of the multiselect the exploration tries: none, one     *)
(* model, and the default, which is the whole list in its order           *)
DefaultModels == <<"mistral", "gemma">>
ModelLists == {<<>>} \cup {<<m>> : m \in FREE_MODELS} \cup {DefaultModels}

Event(btn, text, models, ratings) ==
    [btn |-> btn, text |-> text, models |-> models, ratings |-> ratings, i |-> 0,
     first |-> seq]

NoEvent == [btn |-> "none", text |-> <<>>, models |-> <<>>, ratings |-> <<>>, i |-> 0,
            first |-> 0]

CacheKeys == (PromptTexts \ {EmptyStr}) \X FREE_MODELS
Absent == [t |-> "absent"]
NoQuery == [s |-> ""]
NoMsg == [s |-> "", m |-> ""]

----------------------------------------------------------------------------
(* Initial states: the process has started, no session has run the script *)

InitWith(sessions, secretSets) ==
    /\ secrets \in secretSets
    /\ conn = "none"
    /\ tx = NoTx
    /\ tables = {}
    /\ db = <<>>
    /\ seq = 0
    /\ cache = [k \in CacheKeys |-> Absent]
    /\ live = sessions
    /\ prompt = [s \in AllSessions |-> EmptyStr]
    /\ responses = [s \in AllSessions |-> <<>>]
    /\ pc = [s \in AllSessions |-> "idle"]
    /\ ev = [s \in AllSessions |-> NoEvent]
    /\ ui = [s \in AllSessions |-> "none"]
    /\ said = NoMsg
    /\ lastq = NoQuery
    /\ seen = [k \in CacheKeys |-> Absent]
    /\ nfail = 0
    /\ failed = [s \in AllSessions |-> {}]


----------------------------------------------------------------------------
(* One run of the script, lines 81-175, in steps.  Every step ends the     *)
(* history record of the last query.                                       *)

Say(s, m) == said' = [s |-> s, m |-> m]
Quiet == said' = NoMsg

(* Lines 81-92: session state defaults, get_db_connection, setup_database. *)
(* The connection is made once and cached; CREATE TABLE IF NOT EXISTS      *)
(* fails in a failed transaction; conn.commit() commits whatever the       *)
(* shared connection's transaction holds.                                  *)
(* Lines 109, 121, 138: the handler the run enters after start-up *)
Handler(s, e) ==
    IF e.btn = "submit" THEN "tab1"
    ELSE IF e.btn = "save" /\ responses[s] # <<>> THEN "save"
    ELSE "tab2"

StartupFails ==
    \/ DB_KEY \notin secrets
    \/ tx.st = "aborted"
    \/ CreateTableIfNotExists(tables).raised

RunStart(s, e) ==
    /\ lastq' = NoQuery
    /\ IF StartupFails
       THEN /\ pc' = [pc EXCEPT ![s] = "idle"]
            /\ ev' = [ev EXCEPT ![s] = NoEvent]
            /\ ui' = [ui EXCEPT ![s] = "halted"]
            /\ Say(s, "error: db")
            /\ UNCHANGED <<conn, tx, tables, db>>
       ELSE /\ pc' = [pc EXCEPT ![s] = Handler(s, e)]
            /\ ev' = [ev EXCEPT ![s] = e]
            /\ Quiet
            /\ conn' = "open"
            /\ tables' = CreateTableIfNotExists(tables).tables
            /\ db' = Committed(tx, db)
            /\ tx' = NoTx
            /\ UNCHANGED ui
    /\ failed' = IF pc[s] = "rerun" THEN [failed EXCEPT ![s] = {}] ELSE failed
    /\ UNCHANGED <<secrets, seq, cache, seen, live, prompt, responses, nfail>>

(* The buttons and widget values a user can send, given what the last run  *)
(* of the session rendered.                                                *)
Rendered(s) == ui[s] \in {"crashed", "full"}
FormShown(s) == ui[s] = "full" /\ responses[s] # <<>>

(* rows the saves under way have still to insert *)
RECURSIVE Owed(_)
Owed(S) ==
    IF S = {} THEN 0
    ELSE LET t == CHOOSE x \in S : TRUE IN
         (IF pc[t] = "save" THEN Len(responses[t]) - ev[t].i ELSE 0) + Owed(S \ {t})

Events(s, env) ==
    {NoEvent}
    \cup {Event("submit", t, ms, <<>>) : t \in {x \in env.texts : Rendered(s)},
                                       ms \in env.lists}
    \cup {Event("refresh", <<>>, <<>>, <<>>) : x \in {y \in {1} : ui[s] = "full"}}
    \cup {Event("save", t, <<>>, r) :
            t \in {x \in env.drafts : FormShown(s)},
            r \in [1 .. Len(responses[s]) -> env.picks]}

Interact(s, env) ==
    /\ s \in live
    /\ pc[s] = "idle"
    /\ \E e \in Events(s, env) :
          /\ e.btn = "save" =>
                Len(db) + Len(tx.rows) + Owed(live) + Len(responses[s]) <= MaxRows
          /\ RunStart(s, e)

(* st.rerun() after a successful save: the script starts over, no button *)
Rerun(s) ==
    /\ s \in live
    /\ pc[s] = "rerun"
    /\ RunStart(s, NoEvent)

----------------------------------------------------------------------------
(* Lines 109-119: the submit handler *)

(* the guard without its second arm *)
SubmitGuardTextOnly(e) ==
    IF e.text = EmptyStr THEN "warning: prompt" ELSE "ok"

SubmitGuard(e) ==
    IF e.text = EmptyStr THEN "warning: prompt"
    ELSE IF e.models = <<>> THEN "warning: models"
    ELSE "ok"

SubmitReject(s) ==
    /\ s \in live
    /\ pc[s] = "tab1"
    /\ SubmitGuard(ev[s]) # "ok"
    /\ Say(s, SubmitGuard(ev[s]))
    /\ pc' = [pc EXCEPT ![s] = "tab2"]
    /\ lastq' = NoQuery
    /\ UNCHANGED <<secrets, conn, tables, seen, tx, db, seq, cache, live, prompt, responses,
                   ev, ui, nfail, failed>>

SubmitAccept(s) ==
    /\ s \in live
    /\ pc[s] = "tab1"
    /\ SubmitGuard(ev[s]) = "ok"
    /\ prompt' = [prompt EXCEPT ![s] = ev[s].text]
    /\ responses' = [responses EXCEPT ![s] = <<>>]
    /\ pc' = [pc EXCEPT ![s] = IF ev[s].models = <<>> THEN "tab2" ELSE "query"]
    /\ lastq' = NoQuery
    /\ failed' = [failed EXCEPT ![s] = {}]
    /\ Quiet
    /\ UNCHANGED <<secrets, conn, tables, seen, tx, db, seq, cache, live, ev, ui, nfail>>

(* st.cache_data around the body: a stored return value is handed back      *)
(* without running the body; a returned value is stored, an exception not. *)
Memoized(c, key, fresh) ==
    IF c[key] # Absent THEN [raised |-> FALSE, val |-> c[key]] ELSE fresh

Remember(c, key, ret) ==
    IF c[key] = Absent /\ ~ret.raised THEN [c EXCEPT ![key] = ret.val] ELSE c

(* Lines 117-119, one turn of the loop.  o is what the API answers at this *)
(* moment, whether or not the call is made.                               *)
QueryStep(s, outcomes) ==
    /\ s \in live
    /\ pc[s] = "query"
    /\ \E o \in outcomes :
          LET model == ev[s].models[Len(responses[s]) + 1]
              key == <<ev[s].text, model>>
              fresh == QueryBody(secrets, o)
              ret == Memoized(cache, key, fresh)
          IN /\ cache' = Remember(cache, key, ret)
             /\ lastq' = [s |-> s, prompt |-> ev[s].text, model |-> model,
                          http |-> cache[key] = Absent /\ IssuesHttp(secrets),
                          o |-> o, ret |-> ret, fresh |-> fresh, before |-> seen[key]]
             /\ seen' = IF ret.raised THEN seen ELSE [seen EXCEPT ![key] = ret.val]
             /\ IF ret.raised
                THEN /\ pc' = [pc EXCEPT ![s] = "idle"]
                     /\ ui' = [ui EXCEPT ![s] = "crashed"]
                     /\ Say(s, "exception")
                     /\ UNCHANGED <<responses, ev>>
                ELSE /\ responses' = [responses EXCEPT ![s] =
                                         Append(@, [model |-> model, response |-> ret.val])]
                     /\ pc' = [pc EXCEPT ![s] =
                                  IF Len(responses[s]) + 1 = Len(ev[s].models)
                                  THEN "tab2" ELSE "query"]
                     /\ Quiet
                     /\ UNCHANGED <<ui, ev>>
    /\ UNCHANGED <<secrets, conn, tables, tx, db, seq, live, prompt, nfail, failed>>

----------------------------------------------------------------------------
(* Lines 138-157: the save handler *)

FailKinds == {"server", "client"}

(* the row saved with the text of the prompt field instead *)
PromptField(s) == ev[s].text

(* line 147: the prompt a row is saved with *)
SavedPrompt(s) == prompt[s]

(* the reset run whether or not the commit returned *)
PendingReset(pend, committed) == <<>>

(* the prompt left in place after the commit *)
PromptKept(p, committed) == p

(* lines 152-153 sit after conn.commit() inside the try block: the pending *)
(* list and the prompt are reset when the commit has returned, and kept    *)
(* when anything before them raised                                        *)
PendingAfterSave(pend, committed) == IF committed THEN <<>> ELSE pend
PromptAfterSave(p, committed) == IF committed THEN EmptyStr ELSE p

(* history: the save attempt a row is written by (the session and the     *)
(* sequence value when its run began) and the length of its batch         *)
Batch(s) == [s |-> s, first |-> ev[s].first, n |-> Len(responses[s])]

(* cur.execute(INSERT ...) for entry ev.i + 1 *)
InsertStep(s) ==
    /\ s \in live
    /\ pc[s] = "save"
    /\ ev[s].i < Len(responses[s])
    /\ lastq' = NoQuery
    /\ Quiet
    /\ \/ /\ tx.st # "aborted"
          /\ tx' = [st |-> "open",
                    rows |-> Append(tx.rows,
                                NewRow(seq + 1, SavedPrompt(s), responses[s][ev[s].i + 1],
                                       ev[s].ratings[ev[s].i + 1], TxStamp(db),
                                       Batch(s)))]
          /\ seq' = seq + 1
          /\ ev' = [ev EXCEPT ![s].i = @ + 1]
          /\ UNCHANGED <<pc, nfail>>
          /\ UNCHANGED <<prompt, responses>>
       \/ /\ tx.st = "aborted"
          /\ pc' = [pc EXCEPT ![s] = "except"]
          /\ responses' = [responses EXCEPT ![s] = PendingAfterSave(@, FALSE)]
          /\ prompt' = [prompt EXCEPT ![s] = PromptAfterSave(@, FALSE)]
          /\ UNCHANGED <<tx, seq, ev, nfail>>
       \/ /\ tx.st # "aborted"
          /\ nfail < MaxFail
          /\ \E kind \in FailKinds :
                tx' = IF kind = "server" THEN [st |-> "aborted", rows |-> <<>>] ELSE tx
          /\ nfail' = nfail + 1
          /\ pc' = [pc EXCEPT ![s] = "except"]
          /\ responses' = [responses EXCEPT ![s] = PendingAfterSave(@, FALSE)]
          /\ prompt' = [prompt EXCEPT ![s] = PromptAfterSave(@, FALSE)]
          /\ UNCHANGED <<seq, ev>>
    /\ UNCHANGED <<secrets, conn, tables, seen, db, cache, live, ui, failed>>

(* conn.commit() and, when it returns, lines 150-154 *)
CommitStep(s) ==
    /\ s \in live
    /\ pc[s] = "save"
    /\ ev[s].i = Len(responses[s])
    /\ lastq' = NoQuery
    /\ \/ /\ db' = Committed(tx, db)
          /\ tx' = NoTx
          /\ Say(s, "success")
          /\ responses' = [responses EXCEPT ![s] = PendingAfterSave(@, TRUE)]
          /\ prompt' = [prompt EXCEPT ![s] = PromptAfterSave(@, TRUE)]
          /\ pc' = [pc EXCEPT ![s] = "rerun"]
          /\ UNCHANGED nfail
       \/ /\ tx.st # "aborted"
          /\ nfail < MaxFail
          /\ tx' = NoTx
          /\ nfail' = nfail + 1
          /\ responses' = [responses EXCEPT ![s] = PendingAfterSave(@, FALSE)]
          /\ prompt' = [prompt EXCEPT ![s] = PromptAfterSave(@, FALSE)]
          /\ pc' = [pc EXCEPT ![s] = "except"]
          /\ Quiet
          /\ UNCHANGED db
    /\ UNCHANGED <<secrets, conn, tables, seen, seq, cache, live, ev, ui, failed>>

(* Lines 155-157: st.error, conn.rollback() *)
Except(s) ==
    /\ s \in live
    /\ pc[s] = "except"
    /\ Say(s, "error: save")
    /\ tx' = RolledBack(tx)
    /\ failed' = [failed EXCEPT ![s] = @ \cup {Batch(s)}]
    /\ pc' = [pc EXCEPT ![s] = "tab2"]
    /\ lastq' = NoQuery
    /\ UNCHANGED <<secrets, conn, tables, seen, db, seq, cache, live, prompt, responses, ev, ui,
                   nfail>>

----------------------------------------------------------------------------
(* Lines 161-174: the review tab, which ends the run *)

(* a refresh button that leaves the memo as it is *)
NotCleared(c) == c

(* st.cache_data.clear() *)
Cleared(c) == [k \in DOMAIN c |-> Absent]

(* history: the results returned before a refresh are marked as dropped *)
Dropped == [t |-> "dropped"]
Forgotten(h) == [k \in DOMAIN h |-> IF h[k] = Absent THEN Absent ELSE Dropped]

Tab2(s) ==
    /\ s \in live
    /\ pc[s] = "tab2"
    /\ cache' = IF ev[s].btn = "refresh" THEN Cleared(cache) ELSE cache
    /\ seen' = IF ev[s].btn = "refresh" THEN Forgotten(seen) ELSE seen
    /\ \/ /\ tx.st # "aborted"
          /\ tx' = Begun(tx)
          /\ Say(s, IF ListAll = {<<>>} THEN "info: none" ELSE "dataframe")
          /\ UNCHANGED nfail
       \/ /\ tx.st = "aborted"
          /\ Say(s, "error: read")
          /\ UNCHANGED <<tx, nfail>>
       \/ /\ tx.st # "aborted"
          /\ nfail < MaxFail
          /\ tx' = [st |-> "aborted", rows |-> <<>>]
          /\ nfail' = nfail + 1
          /\ Say(s, "error: read")
    /\ pc' = [pc EXCEPT ![s] = "idle"]
    /\ ui' = [ui EXCEPT ![s] = "full"]
    /\ ev' = [ev EXCEPT ![s] = NoEvent]
    /\ lastq' = NoQuery
    /\ UNCHANGED <<secrets, conn, tables, db, seq, live, prompt, responses, failed>>

----------------------------------------------------------------------------
(* Specifications *)

AllSecrets == {API_KEY, DB_KEY}

Step(s, env) ==
    \/ Interact(s, env)
    \/ Rerun(s)
    \/ SubmitReject(s)
    \/ SubmitAccept(s)
    \/ QueryStep(s, env.outcomes)
    \/ InsertStep(s)
    \/ CommitStep(s)
    \/ Except(s)
    \/ Tab2(s)

(* One session alone, configured. *)
SessionEnv == [outcomes |-> SessionOutcomes, lists |-> ModelLists,
               texts |-> PromptTexts, drafts |-> {EmptyStr}, picks |-> RatingPicks]

Init == InitWith({"s1"}, {AllSecrets})
Next == \E s \in AllSessions : Step(s, SessionEnv)
Spec == Init /\ [][Next]_vars

(* Two sessions of one process, hence on one connection.  The API answers  *)
(* well and the sliders stay at their default.                             *)
SharedEnv == [outcomes |-> {Json(BodyOk(<<"a1">>))}, lists |-> {<<>>, DefaultModels},
              texts |-> PromptTexts, drafts |-> {EmptyStr}, picks |-> {RatingMin}]

InitShared == InitWith(AllSessions, {AllSecrets})
NextShared == \E s \in AllSessions : Step(s, SharedEnv)
SpecShared == InitShared /\ [][NextShared]_vars


(* The query path of one session under every answer of the API: the user   *)
(* submits and refreshes, and never saves.                                 *)
QueryEnv == [outcomes |-> HttpOutcomes, lists |-> ModelLists,
             texts |-> PromptTexts, drafts |-> {}, picks |-> {}]

StepQuery(s, env) ==
    \/ Interact(s, env)
    \/ SubmitReject(s)
    \/ SubmitAccept(s)
    \/ QueryStep(s, env.outcomes)
    \/ Tab2(s)

InitQuery == InitWith({"s1"}, {AllSecrets})
NextQuery == \E s \in AllSessions : StepQuery(s, QueryEnv)
SpecQuery == InitQuery /\ [][NextQuery]_vars


(* One session under every configuration: each of the two secrets present *)
(* or absent.  The API answers well and the sliders stay at their default. *)
ConfigEnv == [outcomes |-> {Json(BodyOk(<<"a1">>))}, lists |-> {<<>>, <<"mistral">>},
              texts |-> PromptTexts, drafts |-> {EmptyStr}, picks |-> {RatingMin}]

InitConfig == InitWith({"s1"}, SUBSET AllSecrets)
NextConfig == \E s \in AllSessions : Step(s, ConfigEnv)
SpecConfig == InitConfig /\ [][NextConfig]_vars


----------------------------------------------------------------------------
(* Properties *)

IsPrefixOf(a, b) == Len(a) <= Len(b) /\ SubSeq(b, 1, Len(a)) = a

(* the rows among `rows` written by the save attempt of session s's run *)
Own(rows, s) == {i \in DOMAIN rows : rows[i].batch.s = s /\ rows[i].batch.first = ev[s].first}

(* the rows among `rows` written by the failed attempts on s's pending list *)
Stale(rows, s) == {i \in DOMAIN rows : rows[i].batch \in failed[s]}

(* the rows among `rows` written for the same pending list as row r *)
Mates(rows, r) == {i \in DOMAIN rows : rows[i].batch = r.batch}

SaveFailed(s) == pc[s] = "tab2" /\ ev[s].btn = "save"
SaveDone(s) == pc[s] = "rerun"

(* C1: a save of one session is atomic.  When an insert or the commit      *)
(* failed, no row of the batch is listed once the handler has finished;    *)
(* when nothing failed, all N rows are listed; the committed rows of a     *)
(* batch are never fewer than its N; and no step removes a committed row.  *)
C1_AtomicState ==
    \A s \in live :
        /\ SaveFailed(s) => \A l \in ListAll : Own(l, s) = {}
        /\ SaveDone(s) => \A l \in ListAll : Cardinality(Own(l, s)) = Len(ev[s].ratings)
        /\ \A i \in DOMAIN db : Cardinality(Mates(db, db[i])) = db[i].batch.n

C1_SaveAtomic == [](C1_AtomicState) /\ [][IsPrefixOf(db, db')]_vars

(* a batch of two whose second insert failed, after the rollback *)
C1_Witness ==
    \E s \in live : SaveFailed(s) /\ Len(responses[s]) = 2 /\ ev[s].i = 1


(* the entry a row stores *)
Stored(r) == <<r.prompt, r.model_name, r.response, r.rating>>

(* what the save of session s is to store for its i-th pending entry *)
Due(s, i) == <<prompt[s], responses[s][i].model, responses[s][i].response, ev[s].ratings[i]>>

InSave(p) == p \in {"save", "except"}
Commits(s) == pc[s] = "save" /\ pc'[s] = "rerun"

(* C2: a save that fails leaves the session's pending list and prompt as   *)
(* they were and the session awaiting ratings; a retry that meets no       *)
(* failure then appends exactly the N pending entries, in order, to       *)
(* committed rows that hold no row of a failed attempt.                    *)
C2_Step ==
    \A s \in live :
        /\ ((InSave(pc[s]) \/ InSave(pc'[s])) /\ ~Commits(s))
              => prompt'[s] = prompt[s] /\ responses'[s] = responses[s]
        /\ pc[s] = "except" => pc'[s] = "tab2" /\ responses'[s] # <<>>
        /\ (Commits(s) /\ failed[s] # {})
              => /\ Stale(db, s) = {}
                 /\ Len(db') = Len(db) + Len(responses[s])
                 /\ \A i \in 1 .. Len(responses[s]) : Stored(db'[Len(db) + i]) = Due(s, i)

C2_FailedSaveKeepsPending == [][C2_Step]_vars

(* a batch of two committed by a retry after a failed attempt *)
C2_Witness ==
    \E s \in live : SaveDone(s) /\ failed[s] # {} /\ Cardinality(Own(db, s)) = 2

Rejected(e) == e.btn = "submit" /\ (e.text = EmptyStr \/ e.models = <<>>)

(* C3: a submit with an empty prompt, or with an empty model list, changes *)
(* neither the session prompt, the pending list nor the stored rows, makes *)
(* no query and no insert, and shows a warning; so does the rest of that   *)
(* run.                                                                    *)
C3_Step ==
    \A s \in live :
        (Rejected(ev[s]) /\ pc[s] \in {"tab1", "tab2"} /\ pc'[s] # pc[s])
           => /\ prompt' = prompt /\ responses' = responses
              /\ db' = db /\ tx'.rows = tx.rows /\ seq' = seq
              /\ lastq' = NoQuery
              /\ pc[s] = "tab1" => /\ pc'[s] = "tab2"
                                   /\ cache' = cache
                                   /\ said'.s = s
                                   /\ said'.m \in {"warning: prompt", "warning: models"}

C3_RejectedSubmit == [][C3_Step]_vars

(* rejected for its empty model list while ratings are awaited and a row   *)
(* is stored                                                               *)
C3_Witness ==
    \E s \in live : /\ pc[s] = "tab2" /\ Rejected(ev[s]) /\ ev[s].text # EmptyStr
                    /\ responses[s] # <<>> /\ db # <<>>
                    /\ said = [s |-> s, m |-> "warning: models"]

Accepted(e) == e.btn = "submit" /\ e.text # EmptyStr /\ e.models # <<>>

(* C4: when the handler of an accepted submit is over, the pending list    *)
(* has one entry per selected model, the i-th for the i-th model.          *)
C4_OneEntryPerModel ==
    \A s \in live :
        (Accepted(ev[s]) /\ pc[s] \in {"tab2", "idle"})
           => /\ Len(responses[s]) = Len(ev[s].models)
              /\ \A i \in 1 .. Len(responses[s]) : responses[s][i].model = ev[s].models[i]

(* C5: a successful save commits one row per pending entry, in pending     *)
(* order, each with the session prompt, the entry's model and response and *)
(* the rating given for its index; each insert adds one row and nothing    *)
(* else adds or commits rows.                                              *)
C5_Step ==
    /\ \A s \in live :
          Commits(s) => /\ Len(db') = Len(db) + Len(responses[s])
                        /\ \A i \in 1 .. Len(responses[s]) :
                              Stored(db'[Len(db) + i]) = Due(s, i)
    /\ db' # db => \E s \in live : Commits(s)
    /\ Len(tx'.rows) > Len(tx.rows)
          => /\ Len(tx'.rows) = Len(tx.rows) + 1
             /\ \E s \in live : pc[s] = "save" /\ ev'[s].i = ev[s].i + 1

C5_SaveStoresPending == [][C5_Step]_vars

(* two rows saved with different ratings while the prompt field held       *)
(* another text than the session prompt                                    *)
C5_Witness ==
    \E s \in live : /\ SaveDone(s) /\ Len(db) = 2 /\ db[1].batch = db[2].batch
                    /\ db[1].rating # db[2].rating
                    /\ ev[s].text # db[1].prompt

(* C6: after a successful save the pending list and the prompt are empty;  *)
(* they are emptied in the step in which the commit returns, with the      *)
(* batch committed, and in no other step of a save.                        *)
C6_Step ==
    \A s \in live :
        /\ SaveDone(s) => responses[s] = <<>> /\ prompt[s] = EmptyStr
        /\ Commits(s) => responses'[s] = <<>> /\ prompt'[s] = EmptyStr
        /\ (InSave(pc[s]) /\ (responses'[s] # responses[s] \/ prompt'[s] # prompt[s]))
              => /\ Commits(s)
                 /\ said' = [s |-> s, m |-> "success"]
                 /\ tx.st = "open" /\ Len(tx.rows) = Len(responses[s])
                 /\ db' = db \o tx.rows

C6_ClearedAfterCommit == [][C6_Step]_vars

(* the commit of a save has just returned *)
C6_Witness ==
    \E s \in live : /\ SaveDone(s) /\ said = [s |-> s, m |-> "success"]
                    /\ responses[s] = <<>> /\ prompt[s] = EmptyStr
                    /\ Len(db) = Len(ev[s].ratings)


Queried == lastq.s # ""
Returned(v) == [raised |-> FALSE, val |-> v]

(* C7: when the body of query runs and the HTTP call fails in transport    *)
(* (connection error, non-success status) with description d, it returns   *)
(* exactly "Erro na API: d"; on a body without `choices`, or with an empty *)
(* `choices`, it returns a string that starts with "Erro ao processar a    *)
(* resposta da API: "; neither class yields the other's prefix.            *)
C7_ErrorMessages ==
    (Queried /\ lastq.http) =>
        /\ lastq.o \in TransportOutcomes
              => /\ lastq.ret = Returned(JStr(<<"Erro na API: ">> \o Describe(lastq.o)))
                 /\ ~StartsWith(lastq.ret.val.v, <<"Erro ao processar a resposta da API: ">>)
        /\ lastq.o \in ShapeOutcomes
              => /\ ~lastq.ret.raised
                 /\ StartsWith(lastq.ret.val.v, <<"Erro ao processar a resposta da API: ">>)
                 /\ ~StartsWith(lastq.ret.val.v, <<"Erro na API: ">>)

(* the call met a non-success status *)
C7_Witness == Queried /\ lastq.http /\ lastq.o = BadStatus /\ ~lastq.ret.raised

(* C8: with several sessions on the store, the committed rows of a save    *)
(* batch are all N of them or none, and a save that reports success has    *)
(* committed exactly its N rows.                                           *)
C8_NoPartialBatch ==
    /\ \A i \in DOMAIN db : Cardinality(Mates(db, db[i])) = db[i].batch.n
    /\ \A s \in live : SaveDone(s) => Cardinality(Own(db, s)) = Len(ev[s].ratings)

(* C9: query never raises to its caller. *)
C9_QueryNeverRaises == Queried => ~lastq.ret.raised

(* C10: the value query returns equals the value the un-memoized body      *)
(* would return at that moment.                                            *)
C10_MemoTransparent == Queried => lastq.ret = lastq.fresh

(* the content string of the first element of `choices` in the body of o *)
FirstContent(o) == o.data.v.choices.v[1].v.message.v.content

(* C11: when the body of query runs and the API answers with success and a *)
(* body whose `choices` begins with an element carrying message.content,   *)
(* query returns that content string unchanged, white space included,      *)
(* whatever further elements `choices` holds.                              *)
C11_FirstChoiceVerbatim ==
    (Queried /\ lastq.http /\ lastq.o \in OkOutcomes)
        => lastq.ret = Returned(FirstContent(lastq.o))

(* the body has two choices, the first one padded with white space *)
C11_Witness ==
    /\ Queried /\ lastq.http
    /\ lastq.o = Json(BodyTwoChoices(<<" ", "a2", " ">>, <<"a1">>))
    /\ lastq.ret = Returned(JStr(<<" ", "a2", " ">>))

(* C12: whenever the review tab reads, the list it gets holds every        *)
(* inserted row, in descending created_at, and begins with the row that    *)
(* was inserted last.                                                      *)
C12_NewestFirst ==
    \A s \in live :
        pc[s] = "tab2" =>
            \A l \in ListAll :
                /\ Len(l) = Len(Visible)
                /\ \A i \in 1 .. Len(l) - 1 : l[i].created_at >= l[i + 1].created_at
                /\ Visible # <<>> => l[1] = Visible[Len(Visible)]

(* the step is the start-up (lines 81-92) of a script run of session s *)
Starts(s) ==
    /\ pc[s] \in {"idle", "rerun"}
    /\ pc'[s] # pc[s] \/ said' = [s |-> s, m |-> "error: db"]

(* C13: every call of setup_database, on a fresh store or on one that has  *)
(* the table and saved rows, raises no error, leaves the one table         *)
(* llm_evaluations with its six columns and primary key id, and leaves the *)
(* committed rows as they were.                                            *)
C13_Step ==
    \A s \in live :
        Starts(s) => /\ said'.m # "error: db"
                     /\ tables' = {Schema}
                     /\ db' = db

C14_MissingConfigHalts ==
    secrets # AllSecrets =>
        /\ ~Queried
        /\ db = <<>> /\ tx.rows = <<>>
        /\ \A s \in live : /\ pc[s] = "idle"
                           /\ ui[s] \in {"none", "halted"}
                           /\ prompt[s] = EmptyStr
                           /\ responses[s] = <<>>

(* C15: every row, committed or inserted and not yet committed, carries an *)
(* integer rating from 1 to 5, and a save in progress has a rating for     *)
(* each index of the pending list.                                         *)
C15_RatingInRange ==
    /\ \A i \in DOMAIN Visible : Visible[i].rating \in {1, 2, 3, 4, 5}
    /\ \A s \in live :
          pc[s] = "save" => /\ DOMAIN ev[s].ratings = 1 .. Len(responses[s])
                            /\ \A i \in DOMAIN ev[s].ratings : ev[s].ratings[i] \in 1 .. 5

(* a batch committed with the slider of one entry at 1 and of the other at 5 *)
C15_Witness ==
    \E i, j \in DOMAIN db : /\ db[i].batch = db[j].batch
                            /\ db[i].rating = 1 /\ db[j].rating = 5

(* C16: no step removes a committed row or changes a field of one: the     *)
(* committed rows of a state are, row for row, the first rows of the next  *)
(* state; and no two committed rows share an id.                           *)
C16_Step ==
    /\ Len(db) <= Len(db')
    /\ \A i \in DOMAIN db : db'[i] = db[i]

C16_AppendOnly ==
    /\ [](\A i, j \in DOMAIN db : db[i].id = db[j].id => i = j)
    /\ [][C16_Step]_vars

(* a save has failed and been rolled back on a table that holds a row *)
C16_Witness ==
    \E s \in live : SaveFailed(s) /\ db # <<>> /\ ev[s].i > 0

(* C17: a call of query for a pair that has returned a result since the    *)
(* last refresh issues no HTTP call and returns that result; a call for a  *)
(* pair without one, the results returned before the last refresh being    *)
(* dropped, issues one HTTP call.                                          *)
C17_RefreshInvalidates ==
    Queried =>
        IF lastq.before \in {Absent, Dropped}
        THEN lastq.http
        ELSE ~lastq.http /\ lastq.ret = Returned(lastq.before)

(* the pair had returned a result, a refresh came, and the pair is         *)
(* submitted again                                                         *)
C17_Witness == Queried /\ lastq.before = Dropped /\ lastq.http /\ ~lastq.ret.raised

C19_PromptIffPending ==
    /\ \A s \in live :
          pc[s] = "idle" => /\ prompt[s] = EmptyStr <=> responses[s] = <<>>
                            /\ FormShown(s) => prompt[s] # EmptyStr
    /\ \A i \in DOMAIN Visible : Visible[i].prompt # EmptyStr


====
